---- MODULE Spec2Model ----
(***************************************************************************)
(* Deployment-wave planning of the MDO project.                            *)
(*                                                                         *)
(* Two implementations of the same planner are modelled side by side:      *)
(*   - lambda_functions/dependency_analyzer.py (lambda_handler and the     *)
(*     create_*_waves planners), impl = "lambda";                          *)
(*   - src/dependency_manager.py (DependencyManager.get_deployment_order   *)
(*     and the _get_*_order planners), impl = "manager".                   *)
(*                                                                         *)
(* Service ids are strings in the source; here they are the integers       *)
(* 1..NumServices in the order the configuration lists them, plus one id   *)
(* (Unknown) that no configuration declares.  A Python dict is a pair of   *)
(* its key sequence (insertion order, which Python preserves) and a        *)
(* function on its key set.  Iterating a Python set of strings yields an   *)
(* order that depends on the interpreter's hash seed: every such iteration *)
(* is a nondeterministic choice among the orderings of the set.            *)
(***************************************************************************)
EXTENDS Integers, Sequences, FiniteSets, TLC

VARIABLES
    config,           \* the configured graph: id -> [dependencies, priority, parallel_group]
    impl,             \* which implementation serves the call: "none", "lambda", "manager",
                      \* or "direct" for a create_*_waves function called on its own
    strategy,         \* the strategy string of the call
    strategy_config,  \* deployment_strategies.get(strategy, {}) as read by the call
    services,         \* the listing of service ids passed to the call
    keys,             \* key order of the dict being planned (service_info / filtered_services)
    service_info,     \* the dict being planned: id -> [dependencies, priority, parallel_group]
    errors,           \* validate_dependencies' error list
    pc,               \* position of the call
    deployed,         \* planner local: set of services already placed
    remaining,        \* planner local: set of services still to place
    in_degree,        \* sequential planner local
    queue,            \* sequential planner local (deque)
    waves,            \* planner local: waves appended so far
    response,         \* what the call returned or raised
    previous,         \* response of the preceding call with the same inputs
    rollback_config,  \* self.config.get('rollback_order', []) as read by get_rollback_order
    deployed_services, \* the argument of get_rollback_order
    smart_plan,       \* start_smart_deployment's plan: [allow_parallel, waves]
    executions,       \* the Step Functions executions started so far
    cursor            \* start_smart_deployment's place in the plan: [wave, index]

vars == <<config, impl, strategy, strategy_config, services, keys, service_info,
          errors, pc, deployed, remaining, in_degree, queue, waves, response, previous,
          rollback_config, deployed_services, smart_plan, executions, cursor>>

----------------------------------------------------------------------------
(* Bounds of the model *)

NumServices == 3
MaxEdges == 3
MaxLevel == 2

Services == 1..NumServices
Unknown == NumServices + 1
Ids == Services \cup {Unknown}
Levels == 1..MaxLevel

----------------------------------------------------------------------------
(* Generic helpers *)

Range(s) == {s[i] : i \in DOMAIN s}

\* every sequence that lists each element of S exactly once
Orderings(S) == {s \in [1..Cardinality(S) -> S] : Range(s) = S}

InjectiveSeqs(S) == UNION {Orderings(T) : T \in SUBSET S}

RECURSIVE Filter(_, _)
\* Python list comprehension [x for x in s if x in S]
Filter(s, S) ==
    IF s = <<>> THEN <<>>
    ELSE IF Head(s) \in S THEN <<Head(s)>> \o Filter(Tail(s), S)
    ELSE Filter(Tail(s), S)

RECURSIVE MinOf(_)
\* Python min() of a non-empty set of integers
MinOf(S) ==
    LET x == CHOOSE y \in S : TRUE
    IN IF S = {x} THEN x
       ELSE LET m == MinOf(S \ {x}) IN IF x < m THEN x ELSE m

Min2(a, b) == IF a < b THEN a ELSE b

RECURSIVE MaxOf(_)
\* Python max() of a non-empty set of integers
MaxOf(S) ==
    LET x == CHOOSE y \in S : TRUE
    IN IF S = {x} THEN x
       ELSE LET m == MaxOf(S \ {x}) IN IF x > m THEN x ELSE m

RECURSIVE SumOf(_)
\* Python sum() of a list of integers
SumOf(s) == IF s = <<>> THEN 0 ELSE Head(s) + SumOf(Tail(s))

\* a Python float that is the quotient of two integers, kept as that quotient
Ratio(n, d) == [num |-> n, den |-> d]

----------------------------------------------------------------------------
(* The configured graphs the model draws from *)

RECURSIVE Project(_, _)
\* the dependency list of service s in a listing of (service, dependency) edges
Project(E, s) ==
    IF E = <<>> THEN <<>>
    ELSE IF Head(E)[1] = s THEN <<Head(E)[2]>> \o Project(Tail(E), s)
    ELSE Project(Tail(E), s)

EdgeSeqs(S) == UNION {[1..n -> S \X Ids] : n \in 0..MaxEdges}

\* every assignment of dependency lists to the services S with at most MaxEdges
\* entries in all; a list may repeat an id and may name the undeclared id
Graphs(S) == {[s \in S |-> Project(E, s)] : E \in EdgeSeqs(S)}

\* the configurations of the services S: as in the shipped configuration a
\* service's priority and parallel_group coincide (each planner reads one)
Configs(S) ==
    {[s \in S |-> [dependencies   |-> g[s],
                   priority       |-> level[s],
                   parallel_group |-> level[s]]] :
        g \in Graphs(S), level \in [S -> Levels]}

----------------------------------------------------------------------------
(* Validation: identical in both implementations *)

RECURSIVE dfs(_, _, _)
RECURSIVE dfs_deps(_, _, _, _)

\* the loop over the dependencies of one service inside dfs
dfs_deps(info, deps, i, st) ==
    IF i > Len(deps) THEN st
    ELSE LET dep == deps[i] IN
         IF dep \notin st.visited
         THEN LET r == dfs(info, dep, st)
              IN IF r.found THEN r ELSE dfs_deps(info, deps, i + 1, r)
         ELSE IF dep \in st.rec_stack
         THEN [st EXCEPT !.found = TRUE]
         ELSE dfs_deps(info, deps, i + 1, st)

\* dfs without its rec_stack.remove(service)
dfs_without_pop(info, service, st) ==
    LET entered == [visited   |-> st.visited \cup {service},
                    rec_stack |-> st.rec_stack \cup {service},
                    found     |-> FALSE]
        deps == IF service \in DOMAIN info THEN info[service].dependencies ELSE <<>>
    IN dfs_deps(info, deps, 1, entered)

\* the nested function dfs; st carries visited and rec_stack, found is its result
dfs(info, service, st) ==
    LET entered == [visited   |-> st.visited \cup {service},
                    rec_stack |-> st.rec_stack \cup {service},
                    found     |-> FALSE]
        deps == IF service \in DOMAIN info THEN info[service].dependencies ELSE <<>>
        after == dfs_deps(info, deps, 1, entered)
    IN IF after.found THEN after
       ELSE [after EXCEPT !.rec_stack = @ \ {service}]

RECURSIVE dfs_roots(_, _, _, _)
\* the loop over the dict's keys that starts a dfs at every unvisited one
dfs_roots(ks, info, i, st) ==
    IF i > Len(ks) THEN FALSE
    ELSE IF ks[i] \in st.visited THEN dfs_roots(ks, info, i + 1, st)
    ELSE LET r == dfs(info, ks[i], st)
         IN IF r.found THEN TRUE ELSE dfs_roots(ks, info, i + 1, r)

has_circular_dependencies(ks, info) ==
    dfs_roots(ks, info, 1, [visited |-> {}, rec_stack |-> {}, found |-> FALSE])

\* check_missing_dependencies looking at the first dependency of a service only
check_missing_first_only(info) ==
    {d \in {info[s].dependencies[1] : s \in {t \in DOMAIN info : info[t].dependencies # <<>>}} :
        d \notin DOMAIN info}

\* set(missing): the dependency ids that are not keys of the dict
check_missing_dependencies(info) ==
    {d \in UNION {Range(info[s].dependencies) : s \in DOMAIN info} : d \notin DOMAIN info}

CircularError == [message |-> "Circular dependencies detected", dep |-> 0]
MissingError(d) == [message |-> "Missing dependency", dep |-> d]

\* validate_dependencies returning at the first kind of error it finds
validate_fail_fast(ks, info) ==
    IF has_circular_dependencies(ks, info) THEN {<<CircularError>>}
    ELSE {[i \in 1..Len(o) |-> MissingError(o[i])] :
             o \in Orderings(check_missing_dependencies(info))}

\* the error lists validate_dependencies can return: list(set(missing)) comes
\* out in the set's iteration order
validate_dependencies(ks, info) ==
    LET circular == IF has_circular_dependencies(ks, info) THEN <<CircularError>> ELSE <<>>
        missing == check_missing_dependencies(info)
    IN {circular \o [i \in 1..Len(o) |-> MissingError(o[i])] : o \in Orderings(missing)}


\* a caller that does not look at the flag
is_valid_always(errs) == TRUE

\* 'valid': len(errors) == 0, the flag both callers branch on
is_valid(errs) == Len(errs) = 0

\* DependencyManager's copies of the same three checks, run on self.services
_has_circular_dependencies(ks, info) == has_circular_dependencies(ks, info)

_check_missing_dependencies(info) == check_missing_dependencies(info)

DependencyManager_validate_dependencies(ks, info) ==
    LET circular == IF _has_circular_dependencies(ks, info) THEN <<CircularError>> ELSE <<>>
        missing == _check_missing_dependencies(info)
    IN {circular \o [i \in 1..Len(o) |-> MissingError(o[i])] : o \in Orderings(missing)}

----------------------------------------------------------------------------
(* Program constants *)

DefaultPriority == 999
DefaultParallelGroup == 999
ParallelOptimizedMaxConcurrent == 3
PriorityBasedMaxConcurrent == 2
DefaultDeployTime == 60

KnownStrategies == {"sequential", "parallel_optimized", "priority_based"}

Strategies == KnownStrategies \cup {"canary"}

\* deployment_strategies.get(strategy, {}): no entry, or an entry with its flag
NoEntry == [present |-> FALSE, allow_parallel |-> FALSE]
StrategyConfigs == {NoEntry} \cup {[present |-> TRUE, allow_parallel |-> b] : b \in BOOLEAN}

\* the strategy catalog load_dependency_config hard-codes
LambdaStrategyConfig(st) ==
    IF st \in {"parallel_optimized", "priority_based"}
    THEN [present |-> TRUE, allow_parallel |-> TRUE]
    ELSE IF st = "sequential" THEN [present |-> TRUE, allow_parallel |-> FALSE]
    ELSE NoEntry

NoResponse == [statusCode |-> 0]

----------------------------------------------------------------------------
(* Parsing and the planners' shared pieces *)

parse_service_dependencies(listing, cfg) ==
    [s \in Range(listing) |->
        IF s \in DOMAIN cfg
        THEN [dependencies          |-> cfg[s].dependencies,
              priority              |-> cfg[s].priority,
              parallel_group        |-> cfg[s].parallel_group,
              estimated_deploy_time |->
                  IF "estimated_deploy_time" \in DOMAIN cfg[s]
                  THEN cfg[s].estimated_deploy_time
                  ELSE DefaultDeployTime]
        ELSE [dependencies          |-> <<>>,
              priority              |-> DefaultPriority,
              parallel_group        |-> DefaultParallelGroup,
              estimated_deploy_time |-> DefaultDeployTime]]

\* {name: info for name, info in self.services.items() if name in services_to_deploy}
filtered_services(listing, cfg) ==
    [s \in DOMAIN cfg \cap Range(listing) |-> cfg[s]]

\* a frontier test that does not look at the dependencies
Deployable_without_check(info, done, s) == TRUE

\* all(dep in deployed or dep not in service_info for dep in info['dependencies'])
Deployable(info, done, s) ==
    \A i \in DOMAIN info[s].dependencies :
        info[s].dependencies[i] \in done \/ info[s].dependencies[i] \notin DOMAIN info

\* in_degree after the counting loop of the sequential planners
InitialInDegree(info) ==
    [s \in DOMAIN info |-> Len(Filter(info[s].dependencies, DOMAIN info))]

\* in_degree after one pass of the update loop for the popped service
DecrementedInDegree(info, deg, current) ==
    [s \in DOMAIN info |->
        IF current \in Range(info[s].dependencies) THEN deg[s] - 1 ELSE deg[s]]

\* the services that pass appends to the queue, in dict order
NewlyFree(ks, info, deg, current) ==
    Filter(ks, {s \in DOMAIN info :
                   /\ current \in Range(info[s].dependencies)
                   /\ DecrementedInDegree(info, deg, current)[s] = 0})

RECURSIVE sequential_loop(_, _, _, _)
\* the while loop of the sequential planners, run to its end: the services in
\* the order they are popped
sequential_loop(ks, info, deg, q) ==
    IF q = <<>> THEN <<>>
    ELSE LET current == Head(q)
         IN <<current>> \o
            sequential_loop(ks, info, DecrementedInDegree(info, deg, current),
                            Tail(q) \o NewlyFree(ks, info, deg, current))

\* create_sequential_waves / _get_sequential_order as a function of the dict:
\* the member of each wave, in wave order
sequential_order(ks, info) ==
    sequential_loop(ks, info, InitialInDegree(info),
                    Filter(ks, {s \in DOMAIN info : InitialInDegree(info)[s] = 0}))

\* a wave time that reads the first member only
estimated_time_of_first(info, m) == info[m[1]].estimated_deploy_time

\* max(service_info[s]['estimated_deploy_time'] for s in current_wave_services)
estimated_time(info, m) == MaxOf({info[m[i]].estimated_deploy_time : i \in DOMAIN m})

----------------------------------------------------------------------------
(* The deployment plan lambda_handler builds from the waves *)

\* calculate_parallel_efficiency without its bonus term
calculate_parallel_efficiency_without_bonus(ws) ==
    IF ws = <<>> THEN Ratio(0, 1)
    ELSE Ratio(Cardinality({i \in DOMAIN ws : ws[i].allow_parallel}) * 100, Len(ws))

\* calculate_parallel_efficiency without its min(efficiency, 100.0)
calculate_parallel_efficiency_uncapped(ws) ==
    IF ws = <<>> THEN Ratio(0, 1)
    ELSE Ratio(Cardinality({i \in DOMAIN ws : ws[i].allow_parallel}) * 100
                      * SumOf([i \in DOMAIN ws |-> Len(ws[i].services)])
                  + SumOf([i \in DOMAIN ws |->
                              IF ws[i].allow_parallel THEN Len(ws[i].services) - 1 ELSE 0])
                      * 20 * Len(ws),
               Len(ws) * SumOf([i \in DOMAIN ws |-> Len(ws[i].services)]))

calculate_parallel_efficiency(ws) ==
    IF ws = <<>> THEN Ratio(0, 1)
    ELSE LET parallel == {i \in DOMAIN ws : ws[i].allow_parallel}
             parallel_waves == Cardinality(parallel)
             total_waves == Len(ws)
             concurrent_bonus ==
                 SumOf([i \in DOMAIN ws |->
                           IF i \in parallel THEN Len(ws[i].services) - 1 ELSE 0])
             total_services == SumOf([i \in DOMAIN ws |-> Len(ws[i].services)])
             efficiency ==
                 IF total_services > 0
                 THEN Ratio(parallel_waves * 100 * total_services
                               + concurrent_bonus * 20 * total_waves,
                            total_waves * total_services)
                 ELSE Ratio(parallel_waves * 100, total_waves)
         IN IF efficiency.num > 100 * efficiency.den THEN Ratio(100, 1) ELSE efficiency

\* create_deployment_plan reporting the whole sequential time as saved
create_deployment_plan_all_saved(ws, st) ==
    LET total_estimated_time == SumOf([i \in DOMAIN ws |-> ws[i].estimated_time])
    IN [strategy                  |-> st,
        total_waves               |-> Len(ws),
        total_services            |-> SumOf([i \in DOMAIN ws |-> Len(ws[i].services)]),
        estimated_sequential_time |-> total_estimated_time,
        estimated_optimized_time  |-> total_estimated_time,
        time_savings_seconds      |-> total_estimated_time,
        time_savings_percentage   |-> Ratio(100, 1),
        parallel_efficiency       |-> calculate_parallel_efficiency(ws),
        waves                     |-> ws]

create_deployment_plan(ws, st) ==
    LET total_estimated_time == SumOf([i \in DOMAIN ws |-> ws[i].estimated_time])
        optimized_time ==
            IF st = "parallel_optimized"
            THEN IF ws # <<>> THEN MaxOf({ws[i].estimated_time : i \in DOMAIN ws}) ELSE 0
            ELSE total_estimated_time
        time_savings ==
            IF st = "parallel_optimized" THEN total_estimated_time - optimized_time ELSE 0
    IN [strategy                  |-> st,
        total_waves               |-> Len(ws),
        total_services            |-> SumOf([i \in DOMAIN ws |-> Len(ws[i].services)]),
        estimated_sequential_time |-> total_estimated_time,
        estimated_optimized_time  |-> optimized_time,
        time_savings_seconds      |-> time_savings,
        time_savings_percentage   |->
            IF total_estimated_time > 0
            THEN Ratio(time_savings * 100, total_estimated_time)
            ELSE Ratio(0, 1),
        parallel_efficiency       |-> calculate_parallel_efficiency(ws),
        waves                     |-> ws]

RECURSIVE get_depth(_, _, _)
\* the nested function get_depth; each dependency gets its own copy of visited
get_depth(info, service, visited) ==
    IF service \in visited THEN 0
    ELSE IF service \notin DOMAIN info THEN 1
    ELSE IF info[service].dependencies = <<>> THEN 1
    ELSE MaxOf({get_depth(info, info[service].dependencies[i], visited \cup {service}) :
                   i \in DOMAIN info[service].dependencies} \cup {0}) + 1

\* max(get_depth(service) for service in service_info.keys()), for a dict
\* with at least one key; with none max() raises
calculate_max_dependency_depth(info) ==
    MaxOf({get_depth(info, service, {}) : service \in DOMAIN info})

\* the dependency_analysis block of lambda_handler's result
dependency_analysis(ks, info) ==
    [total_dependencies   |-> SumOf([i \in DOMAIN ks |-> Len(info[ks[i]].dependencies)]),
     independent_services |-> Cardinality({sv \in DOMAIN info : info[sv].dependencies = <<>>}),
     max_dependency_depth |-> calculate_max_dependency_depth(info)]

estimate_total_deployment_time(deployment_plan) ==
    IF deployment_plan.strategy = "sequential"
    THEN deployment_plan.estimated_sequential_time
    ELSE deployment_plan.estimated_optimized_time

----------------------------------------------------------------------------
(* The configuration load_dependency_config hard-codes *)

ShippedNames == <<"auth-service", "menu-service", "order-service",
                  "payment-service", "notification-service", "analytics-service">>

\* the integer that stands for a shipped service: its place in the configuration
Id(name) == CHOOSE i \in DOMAIN ShippedNames : ShippedNames[i] = name

\* load_dependency_config()['services'], keyed by the services' places
load_dependency_config ==
    << [dependencies |-> <<>>,
        priority |-> 1, parallel_group |-> 1, estimated_deploy_time |-> 60],
       [dependencies |-> <<Id("auth-service")>>,
        priority |-> 2, parallel_group |-> 2, estimated_deploy_time |-> 45],
       [dependencies |-> <<Id("auth-service"), Id("menu-service")>>,
        priority |-> 3, parallel_group |-> 3, estimated_deploy_time |-> 90],
       [dependencies |-> <<Id("auth-service")>>,
        priority |-> 2, parallel_group |-> 2, estimated_deploy_time |-> 75],
       [dependencies |-> <<Id("auth-service")>>,
        priority |-> 2, parallel_group |-> 2, estimated_deploy_time |-> 30],
       [dependencies |-> <<Id("order-service"), Id("payment-service")>>,
        priority |-> 4, parallel_group |-> 4, estimated_deploy_time |-> 60] >>

ShippedServices == DOMAIN load_dependency_config

\* an id the shipped configuration does not declare
Unlisted == Len(ShippedNames) + 1

\* the listings a call on the shipped configuration is drawn from
ShippedListings ==
    InjectiveSeqs(ShippedServices) \cup {l \o <<Unlisted>> : l \in InjectiveSeqs(ShippedServices)}

----------------------------------------------------------------------------
(* The calls *)

\* the listings a lambda call is drawn from: configured services in any order,
\* with or without the undeclared id after them
Listings == InjectiveSeqs(Services) \cup {l \o <<Unknown>> : l \in InjectiveSeqs(Services)}

\* one listing per subset: where only membership in the listing is read
AscendingSeqs(S) == {Filter([i \in 1..(NumServices + 1) |-> i], T) : T \in SUBSET S}

ConfigKeys == [i \in 1..NumServices |-> i]

Init ==
    /\ config = <<>>
    /\ impl = "none"
    /\ strategy = "none"
    /\ strategy_config = NoEntry
    /\ services = <<>>
    /\ keys = <<>>
    /\ service_info = <<>>
    /\ errors = <<>>
    /\ pc = "idle"
    /\ deployed = {}
    /\ remaining = {}
    /\ in_degree = <<>>
    /\ queue = <<>>
    /\ waves = <<>>
    /\ response = NoResponse
    /\ previous = NoResponse
    /\ rollback_config = <<>>
    /\ deployed_services = <<>>
    /\ smart_plan = [allow_parallel |-> FALSE, waves |-> <<>>]
    /\ executions = <<>>
    /\ cursor = [wave |-> 1, index |-> 1]

\* DependencyManager.__init__: the configuration file is loaded and parsed
DependencyManager_init ==
    /\ pc = "idle"
    /\ impl = "none"
    /\ impl' = "manager"
    /\ config' \in Configs(Services)
    /\ UNCHANGED <<strategy, strategy_config, services, keys, service_info, errors, pc,
                   deployed, remaining, in_degree, queue, waves, response, previous>>
    /\ UNCHANGED <<rollback_config, deployed_services>>
    /\ UNCHANGED <<smart_plan, executions, cursor>>

\* the planner's locals as the chosen planner initialises them
StartPlanner(branch, ks, info) ==
    /\ pc' = branch
    /\ waves' = <<>>
    /\ response' = NoResponse
    /\ IF branch = "sequential"
       THEN /\ in_degree' = InitialInDegree(info)
            /\ queue' = Filter(ks, {s \in DOMAIN info : InitialInDegree(info)[s] = 0})
            /\ deployed' = {}
            /\ remaining' = {}
       ELSE /\ deployed' = {}
            /\ remaining' = DOMAIN info
            /\ in_degree' = <<>>
            /\ queue' = <<>>

\* the call ends without a plan: the planner's locals are gone
Abort(resp) ==
    /\ pc' = "done"
    /\ response' = resp
    /\ waves' = <<>>
    /\ deployed' = {}
    /\ remaining' = {}
    /\ in_degree' = <<>>
    /\ queue' = <<>>

\* lambda_handler's dispatch on the strategy string
LambdaBranch(st) ==
    IF st = "parallel_optimized" THEN "parallel_optimized"
    ELSE IF st = "priority_based" THEN "priority_based"
    ELSE "sequential"

\* lambda_handler up to the planner it dispatches to.  The handler loads its
\* configuration itself and reads only the entries of the listed services:
\* config holds those entries.  The strategy is recorded where the handler
\* first branches on it.
lambda_handler_call(listing, cfg) ==
    LET info == parse_service_dependencies(listing, cfg)
    IN /\ config' = cfg
       /\ services' = listing
       /\ keys' = listing
       /\ service_info' = info
       /\ \E errs \in validate_dependencies(listing, info) :
             /\ errors' = errs
             /\ IF ~is_valid(errs)
                THEN /\ strategy' = "none"
                     /\ strategy_config' = NoEntry
                     /\ Abort([statusCode |-> 500,
                               error |-> [message |-> "Invalid dependencies",
                                          errors  |-> errs]])
                ELSE \E st \in Strategies :
                        /\ strategy' = st
                        /\ strategy_config' = LambdaStrategyConfig(st)
                        /\ StartPlanner(LambdaBranch(st), listing, info)

\* a call on a configuration drawn from Configs
lambda_handler ==
    /\ pc = "idle"
    /\ impl = "none"
    /\ impl' = "lambda"
    /\ \E listing \in Listings :
       \E cfg \in Configs(Range(listing) \cap Services) : lambda_handler_call(listing, cfg)
    /\ UNCHANGED previous
    /\ UNCHANGED <<rollback_config, deployed_services>>
    /\ UNCHANGED <<smart_plan, executions, cursor>>

\* a call on the configuration load_dependency_config returns as shipped
lambda_handler_shipped ==
    /\ pc = "idle"
    /\ impl = "none"
    /\ impl' = "lambda"
    /\ \E listing \in ShippedListings : lambda_handler_call(listing, load_dependency_config)
    /\ UNCHANGED previous
    /\ UNCHANGED <<rollback_config, deployed_services>>
    /\ UNCHANGED <<smart_plan, executions, cursor>>

\* a dispatch that does not read allow_parallel
ManagerBranch_by_strategy(st, sc) ==
    IF st \in KnownStrategies THEN st ELSE "raise"

\* get_deployment_order's dispatch: "raise" is the Unknown deployment strategy error
ManagerBranch(st, sc) ==
    IF ~sc.allow_parallel \/ st = "sequential" THEN "sequential"
    ELSE IF st = "parallel_optimized" THEN "parallel_optimized"
    ELSE IF st = "priority_based" THEN "priority_based"
    ELSE "raise"

\* get_deployment_order up to the planner it dispatches to; its arguments are
\* recorded where the method first reads them, after validation
get_deployment_order ==
    /\ pc = "idle"
    /\ impl = "manager"
    /\ \E errs \in DependencyManager_validate_dependencies(ConfigKeys, config) :
          /\ errors' = errs
          /\ IF ~is_valid(errs)
             THEN /\ strategy' = "none"
                  /\ strategy_config' = NoEntry
                  /\ services' = <<>>
                  /\ keys' = <<>>
                  /\ service_info' = <<>>
                  /\ Abort([raises |-> "ValueError",
                            error |-> [message |-> "Invalid dependencies", errors |-> errs]])
             ELSE \E listing \in AscendingSeqs(Ids), st \in Strategies,
                     sc \in StrategyConfigs :
                     LET info == filtered_services(listing, config)
                         ks == Filter(ConfigKeys, Range(listing))
                     IN /\ strategy' = st
                        /\ strategy_config' = sc
                        /\ services' = listing
                        /\ keys' = ks
                        /\ service_info' = info
                        /\ IF ManagerBranch(st, sc) = "raise"
                           THEN Abort([raises |-> "ValueError",
                                       error |-> [message |-> "Unknown deployment strategy",
                                                  errors  |-> <<>>]])
                           ELSE StartPlanner(ManagerBranch(st, sc), ks, info)
    /\ UNCHANGED <<config, impl, previous>>
    /\ UNCHANGED <<rollback_config, deployed_services>>
    /\ UNCHANGED <<smart_plan, executions, cursor>>

----------------------------------------------------------------------------
(* The planners, one loop iteration per step *)

\* a frontier that takes every remaining service
DeployableSet_all(info, done, rem) == rem

DeployableSet(info, done, rem) == {s \in rem : Deployable(info, done, s)}

\* groups[min(groups.keys())] as a set, grouping by parallel_group
MinGroupMembers(info, cand) ==
    {s \in cand : info[s].parallel_group = MinOf({info[t].parallel_group : t \in cand})}

\* a wave cut down to the configured max_concurrent_per_wave
MinPriorityMembers_capped(info, cand) ==
    LET full == {s \in cand : info[s].priority = MinOf({info[t].priority : t \in cand})}
    IN IF Cardinality(full) <= PriorityBasedMaxConcurrent THEN full
       ELSE CHOOSE w \in SUBSET full : Cardinality(w) = PriorityBasedMaxConcurrent

\* priority_groups[min(priority_groups.keys())] as a set
MinPriorityMembers(info, cand) ==
    {s \in cand : info[s].priority = MinOf({info[t].priority : t \in cand})}

\* the planner raised: lambda_handler's except clause answers 500, a direct
\* caller gets the exception
LambdaRaise(rem) ==
    LET error == [message |-> "Cannot resolve dependencies", errors |-> <<>>,
                  remaining |-> rem]
    IN IF impl = "lambda"
       THEN Abort([statusCode |-> 500, error |-> error])
       ELSE Abort([raises |-> "ValueError", error |-> error])

\* the planner raised: the exception leaves get_deployment_order
ManagerRaise(rem) ==
    Abort([raises |-> "ValueError",
           error |-> [message |-> "Cannot resolve dependencies", errors |-> <<>>,
                      remaining |-> rem]])

\* a loop body that forgets to take the wave's members out of remaining
PlaceWave_keeping_remaining(w, m) ==
    /\ waves' = Append(waves, w)
    /\ deployed' = deployed \cup Range(m)
    /\ UNCHANGED <<pc, response, in_degree, queue, remaining>>

\* PlaceWave without the update of deployed
PlaceWave_without_deployed(w, m) ==
    /\ waves' = Append(waves, w)
    /\ remaining' = remaining \ Range(m)
    /\ UNCHANGED <<pc, response, in_degree, queue, deployed>>

\* the frontier loops' update of their locals for the wave w with members m
PlaceWave(w, m) ==
    /\ waves' = Append(waves, w)
    /\ deployed' = deployed \cup Range(m)
    /\ remaining' = remaining \ Range(m)
    /\ UNCHANGED <<pc, response, in_degree, queue>>

create_parallel_optimized_waves ==
    /\ impl \in {"lambda", "direct"}
    /\ pc = "parallel_optimized"
    /\ remaining # {}
    /\ LET cand == DeployableSet(service_info, deployed, remaining)
       IN IF cand # {}
          THEN \E m \in Orderings(MinGroupMembers(service_info, cand)) :
                  PlaceWave([wave_number    |-> Len(waves) + 1,
                             parallel_group |-> service_info[m[1]].parallel_group,
                             services       |-> m,
                             allow_parallel |-> Len(m) > 1,
                             max_concurrent |-> Min2(Len(m), ParallelOptimizedMaxConcurrent),
                             estimated_time |-> estimated_time(service_info, m)],
                            m)
          ELSE LambdaRaise(remaining)
    /\ UNCHANGED <<config, impl, strategy, strategy_config, services, keys,
                   service_info, errors, previous>>
    /\ UNCHANGED <<rollback_config, deployed_services>>
    /\ UNCHANGED <<smart_plan, executions, cursor>>

create_priority_based_waves ==
    /\ impl \in {"lambda", "direct"}
    /\ pc = "priority_based"
    /\ remaining # {}
    /\ LET cand == DeployableSet(service_info, deployed, remaining)
       IN IF cand = {}
          THEN LambdaRaise(remaining)
          ELSE \E m \in Orderings(MinPriorityMembers(service_info, cand)) :
                  PlaceWave([wave_number    |-> Len(waves) + 1,
                             priority       |-> service_info[m[1]].priority,
                             services       |-> m,
                             allow_parallel |-> Len(m) > 1,
                             max_concurrent |-> Min2(Len(m), PriorityBasedMaxConcurrent),
                             estimated_time |-> estimated_time(service_info, m)],
                            m)
    /\ UNCHANGED <<config, impl, strategy, strategy_config, services, keys,
                   service_info, errors, previous>>
    /\ UNCHANGED <<rollback_config, deployed_services>>
    /\ UNCHANGED <<smart_plan, executions, cursor>>

create_sequential_waves ==
    /\ impl \in {"lambda", "direct"}
    /\ pc = "sequential"
    /\ queue # <<>>
    /\ LET current == Head(queue)
       IN /\ waves' = Append(waves, [wave_number    |-> Len(waves) + 1,
                                     services       |-> <<current>>,
                                     allow_parallel |-> FALSE,
                                     max_concurrent |-> 1,
                                     estimated_time |->
                                         service_info[current].estimated_deploy_time])
          /\ in_degree' = DecrementedInDegree(service_info, in_degree, current)
          /\ queue' = Tail(queue) \o NewlyFree(keys, service_info, in_degree, current)
    /\ UNCHANGED <<config, impl, strategy, strategy_config, services, keys,
                   service_info, errors, previous, pc, response, deployed, remaining>>
    /\ UNCHANGED <<rollback_config, deployed_services>>
    /\ UNCHANGED <<smart_plan, executions, cursor>>

\* the planner's loop has ended: lambda_handler builds the plan and wraps the
\* waves in its result.  calculate_max_dependency_depth takes max() over the
\* services: with none it raises and the except clause answers 500.
lambda_handler_return ==
    /\ impl = "lambda"
    /\ \/ pc \in {"parallel_optimized", "priority_based"} /\ remaining = {}
       \/ pc = "sequential" /\ queue = <<>>
    /\ LET deployment_plan == create_deployment_plan(waves, strategy)
       IN IF DOMAIN service_info = {}
          THEN Abort([statusCode |-> 500,
                      error |-> [message |-> "max() arg is an empty sequence",
                                 errors  |-> <<>>]])
          ELSE /\ pc' = "done"
               /\ response' =
                     [statusCode |-> 200,
                      body |-> [strategy               |-> strategy,
                                total_services         |-> Len(services),
                                total_waves            |-> Len(waves),
                                deployment_waves       |-> waves,
                                deployment_plan        |-> deployment_plan,
                                estimated_time_seconds |->
                                    estimate_total_deployment_time(deployment_plan),
                                parallel_optimization  |-> strategy # "sequential",
                                dependency_analysis    |->
                                    dependency_analysis(keys, service_info)]]
               /\ UNCHANGED <<deployed, remaining, in_degree, queue, waves>>
    /\ UNCHANGED <<config, impl, strategy, strategy_config, services, keys,
                   service_info, errors, previous>>
    /\ UNCHANGED <<rollback_config, deployed_services>>
    /\ UNCHANGED <<smart_plan, executions, cursor>>

_get_parallel_optimized_order ==
    /\ impl = "manager"
    /\ pc = "parallel_optimized"
    /\ remaining # {}
    /\ LET cand == DeployableSet(service_info, deployed, remaining)
       IN IF cand # {}
          THEN \E m \in Orderings(MinGroupMembers(service_info, cand)) : PlaceWave(m, m)
          ELSE ManagerRaise(remaining)
    /\ UNCHANGED <<config, impl, strategy, strategy_config, services, keys,
                   service_info, errors, previous>>
    /\ UNCHANGED <<rollback_config, deployed_services>>
    /\ UNCHANGED <<smart_plan, executions, cursor>>

_get_priority_based_order ==
    /\ impl = "manager"
    /\ pc = "priority_based"
    /\ remaining # {}
    /\ LET cand == DeployableSet(service_info, deployed, remaining)
       IN IF cand = {}
          THEN ManagerRaise(remaining)
          ELSE \E m \in Orderings(MinPriorityMembers(service_info, cand)) : PlaceWave(m, m)
    /\ UNCHANGED <<config, impl, strategy, strategy_config, services, keys,
                   service_info, errors, previous>>
    /\ UNCHANGED <<rollback_config, deployed_services>>
    /\ UNCHANGED <<smart_plan, executions, cursor>>

_get_sequential_order ==
    /\ impl = "manager"
    /\ pc = "sequential"
    /\ queue # <<>>
    /\ LET current == Head(queue)
       IN /\ waves' = Append(waves, <<current>>)
          /\ in_degree' = DecrementedInDegree(service_info, in_degree, current)
          /\ queue' = Tail(queue) \o NewlyFree(keys, service_info, in_degree, current)
    /\ UNCHANGED <<config, impl, strategy, strategy_config, services, keys,
                   service_info, errors, previous, pc, response, deployed, remaining>>
    /\ UNCHANGED <<rollback_config, deployed_services>>
    /\ UNCHANGED <<smart_plan, executions, cursor>>

\* strategy_config.get('max_concurrent', 1): the drawn entries carry no
\* max_concurrent, so the default is what every plan shows
DefaultMaxConcurrent == 1

\* _estimate_wave_time's base_time
BaseTime == 60

\* _estimate_wave_time's complex_services, by their places in the configuration
complex_services == {Id("order-service"), Id("payment-service")}

_estimate_wave_time(wave) ==
    MaxOf({BaseTime} \cup
          {IF wave[k] \in complex_services THEN BaseTime * 2 ELSE BaseTime : k \in DOMAIN wave})

\* _check_wave_dependencies on self.services = svc; wave_index counts from 0
_check_wave_dependencies(wave, wave_index, all_waves, svc) ==
    LET previous_services == UNION {Range(all_waves[i]) : i \in 1..wave_index}
    IN \A k \in DOMAIN wave :
          wave[k] \in DOMAIN svc =>
              \A d \in DOMAIN svc[wave[k]].dependencies :
                  ~(/\ svc[wave[k]].dependencies[d] \in DOMAIN svc
                    /\ svc[wave[k]].dependencies[d] \notin previous_services)

\* the plan get_deployment_plan builds from the waves get_deployment_order returned
get_deployment_plan(st, sc, all_waves, svc) ==
    [strategy       |-> st,
     total_waves    |-> Len(all_waves),
     max_concurrent |-> DefaultMaxConcurrent,
     allow_parallel |-> sc.allow_parallel,
     waves          |-> [i \in DOMAIN all_waves |->
                            [wave_number            |-> i,
                             services               |-> all_waves[i],
                             estimated_time         |-> _estimate_wave_time(all_waves[i]),
                             dependencies_satisfied |->
                                 _check_wave_dependencies(all_waves[i], i - 1,
                                                          all_waves, svc)]]]

\* the planner's loop has ended: get_deployment_order returns the waves, and
\* get_deployment_plan, called in its place, the plan it builds from them
get_deployment_order_return ==
    /\ impl = "manager"
    /\ \/ pc \in {"parallel_optimized", "priority_based"} /\ remaining = {}
       \/ pc = "sequential" /\ queue = <<>>
    /\ pc' = "done"
    /\ response' = [returns |-> waves,
                    plan    |-> get_deployment_plan(strategy, strategy_config, waves, config)]
    /\ UNCHANGED <<config, impl, strategy, strategy_config, services, keys,
                   service_info, errors, previous, deployed, remaining,
                   in_degree, queue, waves>>
    /\ UNCHANGED <<rollback_config, deployed_services>>
    /\ UNCHANGED <<smart_plan, executions, cursor>>

\* the finished call is made once more with the same configuration, listing
\* and strategy: parsing and validation give the same dict and no error, so
\* the call reaches the same planner; the first answer is kept for comparison
repeat_call ==
    /\ pc = "done"
    /\ previous = NoResponse
    /\ "body" \in DOMAIN response \/ "returns" \in DOMAIN response
    /\ previous' = response
    /\ StartPlanner(IF impl = "lambda" THEN LambdaBranch(strategy)
                    ELSE ManagerBranch(strategy, strategy_config),
                    keys, service_info)
    /\ UNCHANGED <<config, impl, strategy, strategy_config, services, keys,
                   service_info, errors>>
    /\ UNCHANGED <<rollback_config, deployed_services>>
    /\ UNCHANGED <<smart_plan, executions, cursor>>

Next ==
    \/ DependencyManager_init
    \/ lambda_handler
    \/ get_deployment_order
    \/ create_parallel_optimized_waves
    \/ create_priority_based_waves
    \/ create_sequential_waves
    \/ lambda_handler_return
    \/ _get_parallel_optimized_order
    \/ _get_priority_based_order
    \/ _get_sequential_order
    \/ get_deployment_order_return

\* one call per configuration
Spec == Init /\ [][Next]_vars

\* the same call made twice
SpecRepeat == Init /\ [][Next \/ repeat_call]_vars

\* lambda_handler as shipped, on its hard-coded configuration
NextShipped ==
    \/ lambda_handler_shipped
    \/ create_parallel_optimized_waves
    \/ create_priority_based_waves
    \/ create_sequential_waves
    \/ lambda_handler_return

SpecShipped == Init /\ [][NextShipped]_vars

\* one of the create_*_waves functions is called on a service_info dict that
\* no validation has seen
create_waves_called_directly ==
    /\ pc = "idle"
    /\ impl = "none"
    /\ impl' = "direct"
    /\ \E listing \in InjectiveSeqs(Services) :
       \E cfg \in Configs(Range(listing)), st \in KnownStrategies :
          /\ config' = cfg
          /\ services' = listing
          /\ keys' = listing
          /\ service_info' = parse_service_dependencies(listing, cfg)
          /\ strategy' = st
          /\ strategy_config' = LambdaStrategyConfig(st)
          /\ StartPlanner(st, listing, parse_service_dependencies(listing, cfg))
    /\ UNCHANGED <<errors, previous, rollback_config, deployed_services>>
    /\ UNCHANGED <<smart_plan, executions, cursor>>

\* calculate_max_dependency_depth is called on a service_info dict that no
\* validation has seen
calculate_max_dependency_depth_called_directly ==
    /\ pc = "idle"
    /\ impl = "none"
    /\ impl' = "direct"
    /\ \E listing \in AscendingSeqs(Services) :
       \E cfg \in Configs(Range(listing)) :
          LET info == parse_service_dependencies(listing, cfg)
          IN /\ config' = cfg
             /\ services' = listing
             /\ keys' = listing
             /\ service_info' = info
             /\ IF DOMAIN info = {}
                THEN Abort([raises |-> "ValueError",
                            error |-> [message |-> "max() arg is an empty sequence",
                                       errors  |-> <<>>]])
                ELSE /\ pc' = "done"
                     /\ response' = [max_dependency_depth |->
                                         calculate_max_dependency_depth(info)]
                     /\ UNCHANGED <<deployed, remaining, in_degree, queue, waves>>
    /\ UNCHANGED <<strategy, strategy_config, errors, previous,
                   rollback_config, deployed_services>>
    /\ UNCHANGED <<smart_plan, executions, cursor>>

NextDirect ==
    \/ create_waves_called_directly
    \/ calculate_max_dependency_depth_called_directly
    \/ create_parallel_optimized_waves
    \/ create_priority_based_waves
    \/ create_sequential_waves

SpecDirect == Init /\ [][NextDirect]_vars

\* the selection lists every dependency of its services
DependencyClosed(listing, cfg) ==
    \A s \in Range(listing) \cap DOMAIN cfg :
        Range(cfg[s].dependencies) \subseteq Range(listing)

\* a create_*_waves function is called on the dict parse_service_dependencies
\* builds for a dependency-closed listing; both implementations read only the
\* configuration entries of the listed services, which is what config holds
create_waves_called_on_selection ==
    /\ pc = "idle"
    /\ impl = "none"
    /\ impl' = "direct"
    /\ \E listing \in Listings :
       \E cfg \in Configs(Range(listing) \cap Services), st \in KnownStrategies :
          /\ DependencyClosed(listing, cfg)
          /\ config' = cfg
          /\ services' = listing
          /\ keys' = listing
          /\ service_info' = parse_service_dependencies(listing, cfg)
          /\ strategy' = st
          /\ strategy_config' = LambdaStrategyConfig(st)
          /\ StartPlanner(st, listing, parse_service_dependencies(listing, cfg))
    /\ UNCHANGED <<errors, previous, rollback_config, deployed_services>>
    /\ UNCHANGED <<smart_plan, executions, cursor>>

\* the create_*_waves function is over: the _get_*_order method of the same
\* strategy is called on the dict get_deployment_order filters out of
\* self.services for the same listing.  previous keeps what the function gave.
_get_order_called_on_selection ==
    /\ impl = "direct"
    /\ previous = NoResponse
    /\ \/ pc \in {"parallel_optimized", "priority_based"} /\ remaining = {}
       \/ pc = "sequential" /\ queue = <<>>
       \/ pc = "done"
    /\ impl' = "manager"
    /\ previous' = IF pc = "done" THEN response
                   ELSE [returns |-> [i \in DOMAIN waves |-> waves[i].services]]
    /\ LET info == filtered_services(services, config)
           ks == Filter(ConfigKeys, DOMAIN info)
       IN /\ keys' = ks
          /\ service_info' = info
          /\ StartPlanner(strategy, ks, info)
    /\ UNCHANGED <<config, strategy, strategy_config, services, errors,
                   rollback_config, deployed_services>>
    /\ UNCHANGED <<smart_plan, executions, cursor>>

NextBoth ==
    \/ create_waves_called_on_selection
    \/ create_parallel_optimized_waves
    \/ create_priority_based_waves
    \/ create_sequential_waves
    \/ _get_order_called_on_selection
    \/ _get_parallel_optimized_order
    \/ _get_priority_based_order
    \/ _get_sequential_order

SpecBoth == Init /\ [][NextBoth]_vars

----------------------------------------------------------------------------
(* DependencyManager.get_rollback_order *)

\* the lists get_rollback_order can return for the configured list rc and the
\* argument ds: the configured ids that are deployed, in configured order,
\* then list(remaining) in the iteration order of the set remaining
rollback_orders(rc, ds) ==
    LET rollback_order == Filter(rc, Range(ds))
    IN {rollback_order \o o : o \in Orderings(Range(ds) \ Range(rollback_order))}

\* the rollback_order lists a configuration file may hold: any ids, repeated or not
RollbackLists == UNION {[1..n -> Ids] : n \in 0..Cardinality(Ids)}

\* a manager is constructed and get_rollback_order is called on it; the method
\* reads the configuration's rollback_order list and its argument, nothing else
get_rollback_order ==
    /\ pc = "idle"
    /\ impl = "none"
    /\ impl' = "manager"
    /\ pc' = "rolled_back"
    /\ \E rc \in RollbackLists, ds \in AscendingSeqs(Ids) :
          /\ rollback_config' = rc
          /\ deployed_services' = ds
          /\ \E r \in rollback_orders(rc, ds) : response' = [returns |-> r]
    /\ UNCHANGED <<config, strategy, strategy_config, services, keys, service_info, errors,
                   deployed, remaining, in_degree, queue, waves, previous>>
    /\ UNCHANGED <<smart_plan, executions, cursor>>

\* the same call once more, in the same or in another interpreter process
get_rollback_order_again ==
    /\ pc = "rolled_back"
    /\ previous = NoResponse
    /\ previous' = response
    /\ \E r \in rollback_orders(rollback_config, deployed_services) :
          response' = [returns |-> r]
    /\ UNCHANGED <<config, impl, strategy, strategy_config, services, keys, service_info,
                   errors, pc, deployed, remaining, in_degree, queue, waves,
                   rollback_config, deployed_services>>
    /\ UNCHANGED <<smart_plan, executions, cursor>>

NextRollback ==
    \/ get_rollback_order
    \/ get_rollback_order_again

SpecRollback == Init /\ [][NextRollback]_vars

----------------------------------------------------------------------------
(* DeploymentOrchestrator.start_smart_deployment *)

\* the statuses wait_for_execution_completion takes as final
TerminalStatuses == {"SUCCEEDED", "FAILED", "TIMED_OUT", "ABORTED"}

RECURSIVE SplitWaves(_, _)
\* the list o cut into waves after the positions in cuts
SplitWaves(o, cuts) ==
    IF o = <<>> THEN <<>>
    ELSE LET first == MinOf(cuts \cup {Len(o)})
         IN <<SubSeq(o, 1, first)>> \o
            SplitWaves(SubSeq(o, first + 1, Len(o)), {c - first : c \in cuts \ {first}})

\* what get_deployment_plan hands to the wave loop: allow_parallel and the waves,
\* non-empty member lists no service is in twice; get_deployment_order puts
\* every service in a wave of its own when allow_parallel is false
get_deployment_plan_results ==
    {[allow_parallel |-> ap, waves |-> SplitWaves(o, cuts)] :
        ap \in BOOLEAN, o \in InjectiveSeqs(Services), cuts \in SUBSET (1..(NumServices - 1))}
    \cap
    {p \in [allow_parallel : BOOLEAN,
            waves : UNION {[1..n -> InjectiveSeqs(Services)] : n \in 0..NumServices}] :
        ~p.allow_parallel => \A i \in DOMAIN p.waves : Len(p.waves[i]) = 1}

\* stepfunctions_client.start_execution: one execution per service
start_execution(service, wave_number, deployment_mode) ==
    Append(executions, [service |-> service, wave_number |-> wave_number,
                        deployment_mode |-> deployment_mode, status |-> "RUNNING"])

\* the wave the loop is in, and the loops' next position
wave_services == smart_plan.waves[cursor.wave]

NextService ==
    IF cursor.index < Len(wave_services)
    THEN [wave |-> cursor.wave, index |-> cursor.index + 1]
    ELSE [wave |-> cursor.wave + 1, index |-> 1]

\* the call up to the wave loop: validation and get_deployment_plan, which
\* raise ValueError on an invalid configuration
start_smart_deployment ==
    /\ pc = "idle"
    /\ impl = "none"
    /\ impl' = "orchestrator"
    /\ executions' = <<>>
    /\ cursor' = [wave |-> 1, index |-> 1]
    /\ \/ /\ \E p \in get_deployment_plan_results : smart_plan' = p
          /\ pc' = "deploying"
          /\ UNCHANGED response
       \/ /\ pc' = "done"
          /\ response' = [raises |-> "ValueError"]
          /\ UNCHANGED smart_plan
    /\ UNCHANGED <<config, strategy, strategy_config, services, keys, service_info, errors,
                   deployed, remaining, in_degree, queue, waves, previous,
                   rollback_config, deployed_services>>

\* one iteration of _deploy_wave_parallel's loop: the execution is started and
\* nothing waits for it
_deploy_wave_parallel ==
    /\ pc = "deploying"
    /\ cursor.wave \in DOMAIN smart_plan.waves
    /\ smart_plan.allow_parallel /\ Len(wave_services) > 1
    /\ executions' = start_execution(wave_services[cursor.index], cursor.wave, "parallel")
    /\ cursor' = NextService
    /\ UNCHANGED <<config, impl, strategy, strategy_config, services, keys, service_info,
                   errors, pc, deployed, remaining, in_degree, queue, waves, response,
                   previous, rollback_config, deployed_services, smart_plan>>

\* one step of _deploy_wave_sequential's loop: the execution is started, and
\* only in a wave of several services does the loop wait for it;
\* wait_for_execution_completion returns the status it last read, a terminal
\* one or, after the timeout, whatever the execution is in
_deploy_wave_sequential ==
    /\ pc \in {"deploying", "waiting"}
    /\ cursor.wave \in DOMAIN smart_plan.waves
    /\ ~(smart_plan.allow_parallel /\ Len(wave_services) > 1)
    /\ IF pc = "deploying"
       THEN /\ executions' = start_execution(wave_services[cursor.index], cursor.wave,
                                             "sequential")
            /\ IF Len(wave_services) > 1
               THEN pc' = "waiting" /\ UNCHANGED cursor
               ELSE pc' = "deploying" /\ cursor' = NextService
            /\ UNCHANGED response
       ELSE LET final_status == executions[Len(executions)].status
            IN IF final_status = "SUCCEEDED"
               THEN pc' = "deploying" /\ cursor' = NextService /\ UNCHANGED response
               ELSE /\ pc' = "done"
                    /\ response' = [raises |-> "Exception"]
                    /\ UNCHANGED cursor
            /\ UNCHANGED executions
    /\ UNCHANGED <<config, impl, strategy, strategy_config, services, keys, service_info,
                   errors, deployed, remaining, in_degree, queue, waves,
                   previous, rollback_config, deployed_services, smart_plan>>

\* the wave loop is over: the call returns the plan and the executions it started
start_smart_deployment_return ==
    /\ pc = "deploying"
    /\ cursor.wave \notin DOMAIN smart_plan.waves
    /\ pc' = "done"
    /\ response' = [returns |-> [deployment_plan |-> smart_plan,
                                 all_executions  |-> [i \in DOMAIN executions |->
                                                         executions[i].service]]]
    /\ UNCHANGED <<config, impl, strategy, strategy_config, services, keys, service_info,
                   errors, deployed, remaining, in_degree, queue, waves,
                   previous, rollback_config, deployed_services, smart_plan, executions,
                   cursor>>

\* Step Functions ends a running execution, whatever the orchestrator is doing
execution_ends ==
    /\ impl = "orchestrator"
    /\ \E i \in DOMAIN executions, status \in TerminalStatuses :
          /\ executions[i].status = "RUNNING"
          /\ executions' = [executions EXCEPT ![i].status = status]
    /\ UNCHANGED <<config, impl, strategy, strategy_config, services, keys, service_info,
                   errors, pc, deployed, remaining, in_degree, queue, waves, response,
                   previous, rollback_config, deployed_services, smart_plan, cursor>>

NextOrchestrator ==
    \/ start_smart_deployment
    \/ _deploy_wave_parallel
    \/ _deploy_wave_sequential
    \/ start_smart_deployment_return
    \/ execution_ends

SpecOrchestrator == Init /\ [][NextOrchestrator]_vars

----------------------------------------------------------------------------
(* DependencyManager.can_deploy_parallel, on the services dict svc *)

can_deploy_parallel(list, svc) ==
    \A i \in DOMAIN list :
        list[i] \in DOMAIN svc =>
            ~\E k \in DOMAIN svc[list[i]].dependencies :
                svc[list[i]].dependencies[k] \in Range(list)

----------------------------------------------------------------------------
(* Vocabulary of the properties *)

\* validation has run in this call
Validated == pc # "idle"

\* the call returned a plan
Returned == pc = "done" /\ ("body" \in DOMAIN response \/ "returns" \in DOMAIN response)

\* the call ended in an error
Failed == pc = "done" /\ "error" \in DOMAIN response

\* the member list of a wave of the serving implementation
Members(w) == IF impl = "manager" THEN w ELSE w.services

\* the member lists of the waves the call returned
ReturnedWaves ==
    LET W == IF impl = "lambda" THEN response.body.deployment_waves ELSE response.returns
    IN [i \in 1..Len(W) |-> Members(W[i])]

Selected == Range(services)

\* the dict validation ran on: service_info in the handler, self.services in the manager
ValidatedGraph == IF impl = "lambda" THEN service_info ELSE config

DepsOf(G, s) == IF s \in DOMAIN G THEN Range(G[s].dependencies) ELSE {}

RECURSIVE ReachableFrom(_, _)
\* the ids reachable from S along dependency edges of G, S included
ReachableFrom(G, S) ==
    LET next == S \cup UNION {DepsOf(G, s) : s \in S}
    IN IF next = S THEN S ELSE ReachableFrom(G, next)

\* some declared node reaches itself along at least one edge
HasCycle(G) == \E s \in DOMAIN G : s \in ReachableFrom(G, DepsOf(G, s))

MissingIds(G) == UNION {DepsOf(G, s) : s \in DOMAIN G} \ DOMAIN G

MissingPairs(G) == {p \in (DOMAIN G) \X Ids : p[2] \in DepsOf(G, p[1]) /\ p[2] \notin DOMAIN G}

CircularReported == \E i \in DOMAIN errors : errors[i] = CircularError

MissingReported == {i \in DOMAIN errors : errors[i].message = "Missing dependency"}

\* the positions (wave, place in the wave) at which s occurs in the waves W
Occurrences(W, s) ==
    {p \in (DOMAIN W) \X (1..(NumServices + 1)) : p[2] \in DOMAIN W[p[1]] /\ W[p[1]][p[2]] = s}

----------------------------------------------------------------------------
(* The properties *)

\* C1: in the waves a call returns, every selected dependency of a service
\* placed in wave i is placed in some wave j < i (any strategy, both planners).
C1_DependenciesInEarlierWaves ==
    Returned =>
        \A i \in DOMAIN ReturnedWaves : \A s \in Range(ReturnedWaves[i]) :
            \A d \in DepsOf(config, s) \cap Selected :
                \E j \in 1..(i - 1) : d \in Range(ReturnedWaves[j])

\* a returned plan that places a service with a selected dependency
C1_Witness ==
    /\ Returned
    /\ strategy = "parallel_optimized"
    /\ \E i \in DOMAIN ReturnedWaves : \E s \in Range(ReturnedWaves[i]) :
          DepsOf(config, s) \cap Selected # {}

\* C2 (as claimed): the union of the returned waves' member lists is exactly
\* the selected set and no id occurs twice, in one wave or in two.
C2_WavesPartitionSelection ==
    Returned =>
        /\ UNION {Range(ReturnedWaves[i]) : i \in DOMAIN ReturnedWaves} = Selected
        /\ \A s \in Selected : Cardinality(Occurrences(ReturnedWaves, s)) = 1

\* what does hold of every sequential plan: singleton waves, no service placed
\* twice, every placed service after all of its selected dependencies
SequentialPlacedInOrder ==
    /\ \A i \in DOMAIN ReturnedWaves : Len(ReturnedWaves[i]) = 1
    /\ \A i, j \in DOMAIN ReturnedWaves : i # j => ReturnedWaves[i] # ReturnedWaves[j]
    /\ \A i \in DOMAIN ReturnedWaves :
          \A d \in DepsOf(config, ReturnedWaves[i][1]) \cap Selected :
              \E j \in 1..(i - 1) : ReturnedWaves[j] = <<d>>

\* C3 (as claimed): under the sequential strategy every returned wave holds
\* exactly one service and the wave sequence is a topological order of the
\* selected subgraph: it lists every node of the planned dict, each after all
\* of its selected dependencies.
C3_SequentialTopologicalOrder ==
    (Returned /\ strategy = "sequential") =>
        /\ SequentialPlacedInOrder
        /\ \A s \in DOMAIN service_info : \E i \in DOMAIN ReturnedWaves : ReturnedWaves[i] = <<s>>

\* C4: under parallel_optimized and priority_based no wave holds two services
\* joined by a direct dependency edge: every wave passes can_deploy_parallel.
C4_NoEdgeInsideWave ==
    strategy \in {"parallel_optimized", "priority_based"} =>
        \A i \in DOMAIN waves : can_deploy_parallel(Members(waves[i]), ValidatedGraph)

\* a returned priority_based plan with a wave of two members next to a dependency edge
C4_Witness ==
    /\ Returned
    /\ strategy = "priority_based"
    /\ \E i \in DOMAIN ReturnedWaves : Len(ReturnedWaves[i]) >= 2
    /\ \E s \in Selected : DepsOf(config, s) \cap Selected # {}

\* C5: validation reports the circular-dependency error exactly when some
\* declared node reaches itself along dependency edges, for every key order.
C5_CycleReportedExactly ==
    Validated => (CircularReported <=> HasCycle(ValidatedGraph))

\* a cycle through three services is reported
C5_Witness ==
    /\ Validated
    /\ CircularReported
    /\ \E a, b, c \in DOMAIN ValidatedGraph :
          /\ a # b /\ b # c /\ a # c
          /\ b \in DepsOf(ValidatedGraph, a)
          /\ c \in DepsOf(ValidatedGraph, b)
          /\ a \in DepsOf(ValidatedGraph, c)

\* C6 (as claimed): validation emits one missing-dependency error for every
\* (node, dependency id) pair whose dependency id is not a key of the graph.
C6_OneErrorPerMissingPair ==
    Validated => Cardinality(MissingReported) = Cardinality(MissingPairs(ValidatedGraph))

\* C6 (amended): validation emits one missing-dependency error for every
\* distinct dependency id that is not a key of the graph, and the error names
\* that id and no service.
C6_OneErrorPerMissingId ==
    Validated =>
        /\ {errors[i].dep : i \in MissingReported} = MissingIds(ValidatedGraph)
        /\ Cardinality(MissingReported) = Cardinality(MissingIds(ValidatedGraph))
        /\ \A i \in MissingReported : DOMAIN errors[i] = {"message", "dep"}

\* two services name the same undeclared id and one error is emitted for it
C6_Witness ==
    /\ Validated
    /\ Cardinality(MissingReported) = 1
    /\ \E a, b \in DOMAIN ValidatedGraph :
          /\ a # b
          /\ DepsOf(ValidatedGraph, a) \cap DepsOf(ValidatedGraph, b) \cap
                MissingIds(ValidatedGraph) # {}

\* C7: validation is not fail-fast: a graph with both a cycle and a dangling
\* reference gets both kinds of error, and the error list is empty (valid is
\* true) exactly when the graph has neither.
C7_ErrorsAggregated ==
    Validated =>
        /\ (HasCycle(ValidatedGraph) /\ MissingIds(ValidatedGraph) # {}) =>
              (CircularReported /\ MissingReported # {})
        /\ is_valid(errors) <=>
              (~HasCycle(ValidatedGraph) /\ MissingIds(ValidatedGraph) = {})

\* a graph with a cycle and a dangling reference, both reported
C7_Witness ==
    /\ Validated
    /\ HasCycle(ValidatedGraph)
    /\ MissingIds(ValidatedGraph) # {}
    /\ CircularReported
    /\ MissingReported # {}

\* C8: no plan comes out of a graph that fails validation, and an error
\* leaves no partial plan: when validation reports any error the call has
\* ended in an error without a planner step, and every call that ends in an
\* error carries no body and no waves (statusCode 500 in the handler, an
\* exception in the manager).
C8_NoPlanOnError ==
    /\ (Validated /\ errors # <<>>) => (Failed /\ waves = <<>>)
    /\ Failed =>
          /\ "body" \notin DOMAIN response
          /\ "returns" \notin DOMAIN response
          /\ waves = <<>>
          /\ impl = "lambda" => response.statusCode = 500
          /\ impl = "manager" => response.raises = "ValueError"

\* a handler call on a graph with a validation error has answered 500
C8_Witness ==
    /\ impl = "lambda"
    /\ errors # <<>>
    /\ Failed
    /\ response.statusCode = 500

\* C9 (as claimed): a strategy string outside the three known ones is
\* rejected with the unknown-strategy error and no waves are returned for it.
C9_UnknownStrategyRejected ==
    (pc = "done" /\ strategy \notin KnownStrategies \cup {"none"}) =>
        /\ Failed
        /\ response.error.message = "Unknown deployment strategy"

\* C10 (as claimed): the same call made twice returns the same wave
\* sequence, member order inside each wave included.
C10_RepeatedCallSameWaves ==
    (pc = "done" /\ previous # NoResponse) => response = previous

\* C11 (as claimed): get_rollback_order returns the configured rollback list
\* filtered to the deployed services, in configured order, followed by the
\* deployed services absent from that list in a fixed order: the same call
\* made again returns the same list.
C11_RollbackOrderFixed ==
    pc = "rolled_back" =>
        LET r == response.returns
            head == Filter(rollback_config, Range(deployed_services))
        IN /\ Len(r) >= Len(head)
           /\ SubSeq(r, 1, Len(head)) = head
           /\ Range(SubSeq(r, Len(head) + 1, Len(r))) = Range(deployed_services) \ Range(head)
           /\ previous # NoResponse => response = previous

\* the call of the worked example: the shipped auth, menu, payment and order
\* services, all four selected, planned under parallel_optimized
ExampleCall ==
    /\ Returned
    /\ impl = "lambda"
    /\ config = load_dependency_config
    /\ strategy = "parallel_optimized"
    /\ Selected = {Id("auth-service"), Id("menu-service"),
                   Id("payment-service"), Id("order-service")}

\* C12: for auth (no dependencies, 60 s), menu (auth, 45 s), payment (auth,
\* 75 s) and order (auth and menu, 90 s), all four selected, parallel_optimized
\* yields the three waves {auth}, {menu, payment}, {order}, sequential total
\* 225, optimized total 90, savings 135 (60 percent) and parallel efficiency
\* 1/3 * 100 + 1/4 * 20.
C12_ShippedExample ==
    ExampleCall =>
        LET plan == response.body.deployment_plan
        IN /\ Len(ReturnedWaves) = 3
           /\ Range(ReturnedWaves[1]) = {Id("auth-service")}
           /\ Range(ReturnedWaves[2]) = {Id("menu-service"), Id("payment-service")}
           /\ Range(ReturnedWaves[3]) = {Id("order-service")}
           /\ plan.waves = response.body.deployment_waves
           /\ plan.estimated_sequential_time = 225
           /\ plan.estimated_optimized_time = 90
           /\ plan.time_savings_seconds = 135
           /\ plan.time_savings_percentage.num = 60 * plan.time_savings_percentage.den
           /\ plan.parallel_efficiency.num * 3 * 4 =
                 (1 * 100 * 4 + 1 * 20 * 3) * plan.parallel_efficiency.den

\* the example's call has returned, payment listed before menu in its wave
C12_Witness ==
    /\ ExampleCall
    /\ ReturnedWaves[2] = <<Id("payment-service"), Id("menu-service")>>

\* C13 (as claimed): a service id that is selected but absent from the
\* configured graph is neither rejected nor dropped: it is planned with no
\* dependencies, priority 999, parallel_group 999 and estimated duration 60,
\* and it appears in exactly one wave of the result.
C13_UndeclaredServicePlanned ==
    (/\ pc = "done"
     /\ Unknown \in Selected
     /\ errors = <<>>
     /\ Failed => response.error.message # "Unknown deployment strategy") =>
        /\ Returned
        /\ Cardinality(Occurrences(ReturnedWaves, Unknown)) = 1
        /\ Unknown \in DOMAIN service_info
        /\ service_info[Unknown].dependencies = <<>>
        /\ service_info[Unknown].priority = DefaultPriority
        /\ service_info[Unknown].parallel_group = DefaultParallelGroup
        /\ impl = "lambda" => service_info[Unknown].estimated_deploy_time = DefaultDeployTime

\* C14 (as claimed): when a non-empty proper subset of the graph's services is
\* selected, dependencies on services outside the selection count as
\* satisfied: the call succeeds and its waves cover exactly the subset.
C14_SubsetPlanned ==
    (/\ pc = "done"
     /\ Selected # {}
     /\ Selected \subseteq DOMAIN config
     /\ Selected # DOMAIN config) =>
        /\ Returned
        /\ UNION {Range(ReturnedWaves[i]) : i \in DOMAIN ReturnedWaves} = Selected

\* the planner's loop has ended and lambda_handler is about to build the plan
LoopEnded ==
    /\ impl = "lambda"
    /\ \/ pc \in {"parallel_optimized", "priority_based"} /\ remaining = {}
       \/ pc = "sequential" /\ queue = <<>>

\* the plan create_deployment_plan builds from the finished waves
Plan == create_deployment_plan(waves, strategy)

\* the largest per-wave estimated time of the waves ws, 0 for no waves
MaxWaveTime(ws) == IF ws = <<>> THEN 0 ELSE MaxOf({ws[i].estimated_time : i \in DOMAIN ws})

\* C15 (as claimed): for parallel_optimized and priority_based plans the
\* optimized total is the maximum per-wave estimated time (0 for no waves);
\* for sequential plans it is the sequential total.
C15_OptimizedTotalIsMaxWaveTime ==
    LoopEnded =>
        /\ strategy \in {"parallel_optimized", "priority_based"} =>
              /\ Plan.estimated_optimized_time = MaxWaveTime(waves)
              /\ estimate_total_deployment_time(Plan) = MaxWaveTime(waves)
        /\ strategy = "sequential" =>
              /\ Plan.estimated_optimized_time = Plan.estimated_sequential_time
              /\ estimate_total_deployment_time(Plan) = Plan.estimated_sequential_time

\* C16: in every plan time_savings = sequential total - optimized total and
\* the percentage is time_savings / sequential total * 100, taken as 0 when
\* the sequential total is 0; hence 0 <= optimized <= sequential and
\* 0 <= percentage <= 100.  The plan a call returns is that plan.
C16_TimeSavings ==
    /\ LoopEnded =>
          LET seq == Plan.estimated_sequential_time
              opt == Plan.estimated_optimized_time
              pct == Plan.time_savings_percentage
          IN /\ Plan.time_savings_seconds = seq - opt
             /\ pct.den > 0
             /\ seq > 0 => pct.num * seq = Plan.time_savings_seconds * 100 * pct.den
             /\ seq = 0 => pct.num = 0
             /\ 0 <= opt /\ opt <= seq
             /\ 0 <= pct.num /\ pct.num <= 100 * pct.den
    /\ (Returned /\ impl = "lambda") => response.body.deployment_plan = Plan

\* a finished plan that saves time
C16_Witness ==
    /\ LoopEnded
    /\ Len(waves) >= 2
    /\ Plan.time_savings_seconds > 0
    /\ Plan.estimated_optimized_time < Plan.estimated_sequential_time

\* the planner that serves the call
PlannerOf ==
    IF impl = "manager" THEN ManagerBranch(strategy, strategy_config) ELSE LambdaBranch(strategy)

\* the services placed before wave i
PlacedBefore(i) == UNION {Range(Members(waves[j])) : j \in 1..(i - 1)}

\* the services deployable when wave i was formed: not yet placed, every
\* dependency placed or outside the planned dict
DeployableAt(i) ==
    {s \in DOMAIN service_info \ PlacedBefore(i) :
        \A d \in DepsOf(service_info, s) : d \in PlacedBefore(i) \/ d \notin DOMAIN service_info}

\* the value the serving planner groups by
GroupKey(s) ==
    IF PlannerOf = "parallel_optimized" THEN service_info[s].parallel_group
    ELSE service_info[s].priority

\* C17: every wave of parallel_optimized (priority_based) holds exactly the
\* deployable remaining services whose parallel_group (priority) is the
\* smallest among the deployable ones, each once: max_concurrent_per_wave
\* neither splits nor truncates it, and the lambda's max_concurrent is
\* min(wave size, configured cap).
C17_WaveIsWholeMinGroup ==
    PlannerOf \in {"parallel_optimized", "priority_based"} =>
        \A i \in DOMAIN waves :
            /\ Range(Members(waves[i])) =
                  {s \in DeployableAt(i) :
                      \A t \in DeployableAt(i) : GroupKey(s) <= GroupKey(t)}
            /\ Len(Members(waves[i])) = Cardinality(Range(Members(waves[i])))
            /\ impl = "lambda" =>
                  waves[i].max_concurrent =
                      Min2(Len(waves[i].services),
                           IF PlannerOf = "parallel_optimized"
                           THEN ParallelOptimizedMaxConcurrent
                           ELSE PriorityBasedMaxConcurrent)

\* a priority_based wave of three services under the cap of two
C17_Witness ==
    /\ impl = "lambda"
    /\ PlannerOf = "priority_based"
    /\ \E i \in DOMAIN waves :
          /\ Len(waves[i].services) = 3
          /\ waves[i].max_concurrent = PriorityBasedMaxConcurrent

\* the running planner's loop is over without an exception: it returns waves
LoopOver ==
    \/ pc \in {"parallel_optimized", "priority_based"} /\ remaining = {}
    \/ pc = "sequential" /\ queue = <<>>

\* the services of the planned dict that no wave holds
Unplaced == DOMAIN service_info \ UNION {Range(Members(waves[i])) : i \in DOMAIN waves}

\* C18 (as claimed): under every strategy, sequential included, a planner
\* whose frontier is stuck fails with the cannot-resolve error naming the
\* remaining services: a planner that returns has placed every service of the
\* planned dict, and the error names a non-empty set of services each of
\* which waits for another service of that set.
C18_StuckFrontierRaises ==
    /\ LoopOver => Unplaced = {}
    /\ (Failed /\ response.error.message = "Cannot resolve dependencies") =>
          /\ response.error.remaining # {}
          /\ \A s \in response.error.remaining :
                DepsOf(service_info, s) \cap response.error.remaining # {}

FrontierPlanners == {"parallel_optimized", "priority_based"}

\* the planner stopped with its cannot-resolve error
CannotResolve == Failed /\ response.error.message = "Cannot resolve dependencies"

\* validate_dependencies finds nothing wrong with the planned dict
PassesValidation ==
    \A errs \in validate_dependencies(keys, service_info) : is_valid(errs)

\* what an iteration of a frontier loop may do: place a wave and shrink
\* remaining, raise, or (with remaining empty) return
FrontierIteration ==
    pc \in FrontierPlanners =>
        \/ /\ pc' = pc
           /\ remaining' \subseteq remaining
           /\ remaining' # remaining
           /\ Len(waves') = Len(waves) + 1
        \/ /\ remaining # {}
           /\ (CannotResolve)'
        \/ /\ remaining = {}
           /\ (Returned \/ Failed)'

\* C19: the frontier loop terminates: every iteration either appends a wave
\* and takes at least one service out of remaining, or raises; a planner run
\* never holds more waves than the planned dict has services; and on a dict
\* that passes validation the loop never raises the cannot-resolve error.
C19_FrontierLoopTerminates ==
    /\ [][FrontierIteration]_vars
    /\ [](pc \in FrontierPlanners => Len(waves) <= Cardinality(DOMAIN service_info))
    /\ [](PassesValidation => ~CannotResolve)

\* a frontier planner has emptied remaining in three waves on a dict that
\* passes validation
C19_Witness ==
    /\ pc \in FrontierPlanners
    /\ PassesValidation
    /\ remaining = {}
    /\ Len(waves) = 3

\* C20: every wave record of the lambda planners agrees with its member list
\* under all three strategies: wave_number is the wave's 1-based position,
\* allow_parallel is true exactly when the wave has more than one member, and
\* estimated_time is the largest estimated_deploy_time among the members.
C20_WaveRecordConsistent ==
    impl = "lambda" =>
        \A i \in DOMAIN waves :
            LET m == waves[i].services
            IN /\ waves[i].wave_number = i
               /\ waves[i].allow_parallel <=> Len(m) > 1
               /\ \E k \in DOMAIN m :
                     waves[i].estimated_time = service_info[m[k]].estimated_deploy_time
               /\ \A k \in DOMAIN m :
                     service_info[m[k]].estimated_deploy_time <= waves[i].estimated_time

\* a second wave whose first member is not its slowest
C20_Witness ==
    /\ impl = "lambda"
    /\ Len(waves) >= 2
    /\ Len(waves[2].services) >= 2
    /\ service_info[waves[2].services[1]].estimated_deploy_time < waves[2].estimated_time

\* W, P, B and S of a list of member lists: the number of waves, the number of
\* waves with more than one member, the sum of (size - 1) over those waves and
\* the number of services
EfficiencyTerms(W) ==
    LET big == {i \in DOMAIN W : Len(W[i]) > 1}
    IN [W |-> Len(W),
        P |-> Cardinality(big),
        B |-> SumOf([i \in DOMAIN W |-> IF i \in big THEN Len(W[i]) - 1 ELSE 0]),
        S |-> SumOf([i \in DOMAIN W |-> Len(W[i])])]

\* the quotient e equals min(100, P/W * 100 + B/S * 20)
IsClaimedEfficiency(e, t) ==
    /\ e.den > 0
    /\ IF t.P * 100 * t.S + t.B * 20 * t.W > 100 * t.W * t.S
       THEN e.num = 100 * e.den
       ELSE e.num * t.W * t.S = (t.P * 100 * t.S + t.B * 20 * t.W) * e.den

\* C21: the parallel efficiency of a returned plan is
\* min(100, P/W * 100 + B/S * 20) and lies in [0, 100]; for an empty wave list
\* calculate_parallel_efficiency gives 0.
C21_ParallelEfficiency ==
    /\ (Returned /\ impl = "lambda") =>
          LET e == response.body.deployment_plan.parallel_efficiency
          IN /\ IsClaimedEfficiency(e, EfficiencyTerms(ReturnedWaves))
             /\ 0 <= e.num /\ e.num <= 100 * e.den
    /\ (LoopEnded /\ waves = <<>>) => Plan.parallel_efficiency.num = 0

\* a returned plan whose uncapped efficiency exceeds 100
C21_Witness ==
    /\ Returned
    /\ impl = "lambda"
    /\ response.body.deployment_plan.parallel_efficiency = Ratio(100, 1)
    /\ LET t == EfficiencyTerms(ReturnedWaves)
       IN t.P * 100 * t.S + t.B * 20 * t.W > 100 * t.W * t.S

RECURSIVE ClaimedDepth(_, _, _)
\* the depth of s as claimed: 0 when s is on the current path, 1 when s has no
\* dependency that is a key of G, else one more than its deepest such dependency
ClaimedDepth(G, s, path) ==
    IF s \in path THEN 0
    ELSE LET present == DepsOf(G, s) \cap DOMAIN G
         IN IF present = {} THEN 1
            ELSE MaxOf({ClaimedDepth(G, d, path \cup {s}) : d \in present}) + 1

\* C22 (as claimed): calculate_max_dependency_depth returns the largest
\* depth over all starting nodes, where a node with no dependencies, or with
\* no dependency present in the graph, has depth 1, a node whose deepest
\* in-graph dependency has depth d has depth d + 1, and a node met again on
\* the current path counts 0.
C22_MaxDepthAsClaimed ==
    /\ (pc = "done" /\ "max_dependency_depth" \in DOMAIN response) =>
          response.max_dependency_depth =
              MaxOf({ClaimedDepth(service_info, s, {}) : s \in DOMAIN service_info})
    /\ (Returned /\ impl = "lambda") =>
          response.body.dependency_analysis.max_dependency_depth =
              MaxOf({ClaimedDepth(service_info, s, {}) : s \in DOMAIN service_info})

\* C23: start_smart_deployment deploys the waves in order as a barrier: no
\* execution of a later wave is started until every execution of the waves
\* before it has reached a terminal status.  Terminal statuses are final, so
\* at every moment each execution of an earlier wave than some started one
\* is terminal.
C23_WaveBarrier ==
    \A i, j \in DOMAIN executions :
        executions[i].wave_number < executions[j].wave_number =>
            executions[i].status \in TerminalStatuses

MemberSets(W) == [i \in DOMAIN W |-> Range(W[i])]

\* C25: on every graph and every selection closed under dependencies the
\* planner of the handler and the planner of DependencyManager for the same
\* strategy give the same sequence of wave member sets (and one raises when
\* the other does).
C25_PlannersAgree ==
    (impl = "manager" /\ previous # NoResponse) =>
        /\ LoopOver => /\ "returns" \in DOMAIN previous
                       /\ MemberSets(previous.returns) = MemberSets(waves)
        /\ pc = "done" => "raises" \in DOMAIN previous

RECURSIVE RemoveDuplicates(_)
\* the list without its repeated entries
RemoveDuplicates(l) ==
    IF l = <<>> THEN <<>>
    ELSE <<Head(l)>> \o RemoveDuplicates(Filter(Tail(l), Range(l) \ {Head(l)}))

\* the graph with every dependency list freed of repeated entries
WithoutDuplicates(info) ==
    [s \in DOMAIN info |-> [info[s] EXCEPT !.dependencies = RemoveDuplicates(@)]]

\* C26: the sequential planners give, on a graph whose dependency lists
\* repeat an id, the wave sequence they give on the same graph with the
\* repetitions removed; in particular, on a graph that passes validation
\* every service of the planned dict is in a wave.
C26_SequentialIgnoresDuplicates ==
    (pc = "sequential" /\ queue = <<>>) =>
        /\ [i \in DOMAIN waves |-> Members(waves[i])[1]] =
              sequential_order(keys, WithoutDuplicates(service_info))
        /\ PassesValidation => Unplaced = {}

\* C27: in every plan get_deployment_plan returns, whatever the strategy and
\* the selection (proper subsets of the graph included), every wave's
\* dependencies_satisfied flag is true.
C27_DependenciesSatisfied ==
    (Returned /\ impl = "manager") =>
        \A i \in DOMAIN response.plan.waves :
            response.plan.waves[i].dependencies_satisfied

\* C28: when the selected strategy's configuration has allow_parallel false,
\* or the strategy has no configuration entry, get_deployment_order returns
\* only waves of exactly one service; so a plan whose allow_parallel is
\* false has no wave of more than one service.
C28_NoParallelMeansSingletons ==
    (Returned /\ impl = "manager") =>
        /\ ~strategy_config.allow_parallel =>
              \A i \in DOMAIN response.returns : Len(response.returns[i]) = 1
        /\ ~response.plan.allow_parallel =>
              \A i \in DOMAIN response.plan.waves :
                  Len(response.plan.waves[i].services) = 1

\* a frontier strategy configured without allow_parallel returned several waves
C28_Witness ==
    /\ Returned
    /\ impl = "manager"
    /\ strategy = "parallel_optimized"
    /\ strategy_config.present
    /\ ~strategy_config.allow_parallel
    /\ ~response.plan.allow_parallel
    /\ Len(response.returns) = NumServices

\* C29: for any configured rollback list and any deployed services the result
\* of get_rollback_order is a permutation of the deployed set: every deployed
\* service is in it exactly once and no other service is in it.
C29_RollbackIsPermutation ==
    pc = "rolled_back" =>
        /\ Range(response.returns) = Range(deployed_services)
        /\ \A s \in Range(deployed_services) : Len(Filter(response.returns, {s})) = 1

\* C30: lambda_handler called with an empty services list succeeds: it
\* answers 200 with zero waves, total_services 0, sequential and optimized
\* time 0, time savings percentage 0 and parallel efficiency 0.
C30_EmptyListingSucceeds ==
    (impl = "lambda" /\ pc = "done" /\ services = <<>>) =>
        /\ "body" \in DOMAIN response
        /\ response.statusCode = 200
        /\ response.body.total_services = 0
        /\ response.body.total_waves = 0
        /\ response.body.deployment_waves = <<>>
        /\ response.body.deployment_plan.estimated_sequential_time = 0
        /\ response.body.deployment_plan.estimated_optimized_time = 0
        /\ response.body.deployment_plan.time_savings_percentage = Ratio(0, 1)
        /\ response.body.deployment_plan.parallel_efficiency = Ratio(0, 1)

====
